---- MODULE Spec2Model ----
(***************************************************************************)
(* Model of the EVM settlement-chain adapter (client/src/lib.rs) together  *)
(* with the destination chain it talks to: the treasury contract behind    *)
(* the ITreasury ABI, the relayer accounts' nonces and the node's pool of  *)
(* pending transactions.                                                   *)
(*                                                                         *)
(* update_treasury_light_client and execute are asynchronous: each one     *)
(* suspends at its RPC round trips.  `contract.f(..).send().await` reads   *)
(* the sender's nonce at the latest block, estimates gas (which runs the   *)
(* call against the latest state and fails when it reverts), signs, and    *)
(* hands the transaction to the node; it returns as soon as the node has   *)
(* taken the transaction, not when it is mined.  A call is therefore three *)
(* steps here: invocation up to the nonce read, gas estimation, broadcast. *)
(* Mining is a step of the chain.                                          *)
(***************************************************************************)
EXTENDS Integers, Sequences, FiniteSets, TLC

\* ------------------------------------------------------------- bounds
MaxHeight == 2       \* source-chain blocks 1..MaxHeight exist beyond genesis
MaxCalls == 2        \* adapter calls made in one behaviour
MaxFaults == 1       \* RPC round trips that fail in one behaviour
InitBalance == 2     \* the treasury's initial balance of token T
MaxEmptyBlocks == 1  \* blocks the chain produces without a transaction of a call
MaxEdits == 1        \* characters changed in an address string given to a parse

Heights == 1..MaxHeight
Relayers == {"r1", "r2"}

\* ------------------------------------------------ source-chain values
\* Hash256 of a header.  Headers of this model differ in (height, root).
HeaderHash(hdr) == <<hdr.height, hdr.commit_merkle_root>>

\* The header the source chain finalized at height h.  Its commit root
\* stands for the commit set of that block.
Block(h) ==
    [height |-> h,
     previous_hash |-> <<h - 1, h - 1>>,
     commit_merkle_root |-> h]

\* A header the source chain never finalized: same parent, another root.
ForgedBlock(h) ==
    [height |-> h,
     previous_hash |-> <<h - 1, h - 1>>,
     commit_merkle_root |-> 0 - h]

GenesisHeader == Block(0)

\* A finalization proof: the signatures of a validator set over a header
\* hash; quorum tells whether they reach the quorum of the trust root.
FinalizationProofOf(hdr) == [signed |-> HeaderHash(hdr), quorum |-> TRUE]
NoQuorumProofOf(hdr) == [signed |-> HeaderHash(hdr), quorum |-> FALSE]

\* The bridge messages: TransferFungibleToken of token T to receiver R.
Amounts == {1, 3}
Msg(a, s) == [amount |-> a, contract_sequence |-> s]
Msgs == {Msg(a, s) : a \in Amounts, s \in 0..(MaxHeight - 1)}

\* A transfer of amount 0 at sequence 0.
ZeroTransfer == Msg(0, 0)

\* The execution transactions committed in block h; block 1 also commits
\* the transfer of amount 0.
CommittedIn(h) ==
    {m \in Msgs : m.contract_sequence = h - 1}
    \cup (IF h = 1 THEN {ZeroTransfer} ELSE {})

\* A source-chain transaction: an execution transaction carrying a message,
\* or any other transaction (head "plain").
ExecutionTx(m) == [head |-> "ex-transfer-ft", body |-> m]
PlainTx == [head |-> "plain", body |-> Msg(1, 0)]
Transactions == {ExecutionTx(m) : m \in Msgs} \cup {PlainTx}

\* A Merkle proof: the path of one leaf in the commit tree of one block.
\* create_merkle_proof only builds proofs of leaves the tree holds.
MerkleProofOf(h, m) == [root |-> h, leaf |-> ExecutionTx(m)]
MerkleProofs == UNION {{MerkleProofOf(h, m) : m \in CommittedIn(h)} : h \in Heights}

\* --------------------------------------------------------- wire encoding
\* serde_spb::to_vec: the binary encoding of a value of the given type.
SpbToVec(type, v) == [type |-> type, data |-> v]

\* bincode::deserialize::<BlockHeader>: decodes what to_vec wrote for a
\* header and fails on any other bytes.
BincodeDeserializeHeader(bytes) ==
    IF bytes.type = "BlockHeader"
    THEN [ok |-> TRUE, header |-> bytes.data]
    ELSE [ok |-> FALSE, header |-> GenesisHeader]

\* A conversion that takes every transaction for an execution.
ConvertAnyTransaction(tx) ==
    [ok |-> TRUE,
     execution |->
        [target_chain |-> "mythereum",
         contract_sequence |-> tx.body.contract_sequence,
         message |-> [token_address |-> "T",
                      amount |-> tx.body.amount,
                      receiver_address |-> "R"]]]

\* convert_transaction_to_execution: the execution an execution transaction
\* carries; an error for any other transaction.
ConvertTransactionToExecution(tx) ==
    [ok |-> tx.head = "ex-transfer-ft",
     execution |->
        [target_chain |-> "mythereum",
         contract_sequence |-> tx.body.contract_sequence,
         message |-> [token_address |-> "T",
                      amount |-> tx.body.amount,
                      receiver_address |-> "R"]]]

\* ------------------------------------------------- adapter configuration
\* ChainConfigs.chain_name: Option<String>.
NoName == "None"

\* A ChainType: the variant and the chain_name of its ChainConfigs.
ChainTypeOf(family, chain_name) ==
    [family |-> family, chain_name |-> chain_name]

KnownFamilies ==
    {"Ethereum", "Polygon", "BinanceSmartChain", "Arbitrum", "Optimism",
     "Klaytn", "Fantom", "Avalanche", "Moonbeam", "Moonriver", "Harmony",
     "Celo"}

EthereumChain == ChainTypeOf("Ethereum", NoName)

\* The configurations the adapters of the tests are constructed with.
ChainTypes ==
    {EthereumChain, ChainTypeOf("Other", "Goerli"), ChainTypeOf("Other", NoName)}

\* Every variant, with a chain_name absent, other than the variant's name,
\* or equal to it.
AllChainTypes ==
    {ChainTypeOf(family, chain_name) :
        family \in KnownFamilies \cup {"Other"},
        chain_name \in {NoName, "Goerli", "Ethereum"}}

\* A get_chain_name that prefers the configured chain_name.
ChainTypeGetChainNameConfiguredFirst(ct) ==
    IF ct.chain_name # NoName THEN ct.chain_name
    ELSE IF ct.family \in KnownFamilies THEN ct.family
    ELSE "Unknown"

\* ChainType::get_chain_name.
ChainTypeGetChainName(ct) ==
    IF ct.family \in KnownFamilies THEN ct.family
    ELSE IF ct.chain_name # NoName THEN ct.chain_name
    ELSE "Unknown"

\* ------------------------------------------------------------- state
VARIABLES
    chainType,         \* EvmCompatibleChain.chain: family and ChainConfigs
    treasury,          \* EvmCompatibleChain.treasury: "none", "bad", "ok"
    lastHeader,        \* ITreasury.lightClient().lastHeader (bytes)
    commitRoots,       \* ITreasury.viewCommitRoots(), by height 1..
    contractSequence,  \* ITreasury.contractSequence()
    balance,           \* IERC20.balanceOf, of "treasury" and of "R"
    nonce,             \* transaction count of each relayer account
    mempool,           \* calls whose signed transaction the node holds
    calls,             \* the adapter calls made so far, in invocation order
    log,               \* the mined transactions, in block order
    blockNumber,       \* the number of the destination chain's latest block
    faults             \* RPC round trips that have failed

vars ==
    <<chainType, treasury, lastHeader, commitRoots, contractSequence, balance, nonce,
      mempool, calls, log, blockNumber, faults>>

chain == <<lastHeader, commitRoots, contractSequence, balance>>

\* The fields of EvmCompatibleChain.
config == <<chainType, treasury>>

\* ------------------------------------------- treasury contract (ITreasury)
\* A light client that does not count the signatures.
UpdateLightClientAcceptsNoQuorum(data) ==
    /\ data.header.type = "BlockHeader"
    /\ data.proof.type = "FinalizationProof"
    /\ LET new == data.header.data
           last == lastHeader.data
       IN /\ new.height = last.height + 1
          /\ new.previous_hash = HeaderHash(last)
          /\ data.proof.data.signed = HeaderHash(new)

\* A light client that takes any finalized header, successor or not.
UpdateLightClientAcceptsAnyHeight(data) ==
    /\ data.header.type = "BlockHeader"
    /\ data.proof.type = "FinalizationProof"
    /\ data.proof.data.signed = HeaderHash(data.header.data)
    /\ data.proof.data.quorum

\* updateLightClient(header, proof): the embedded light client takes the
\* header when it is the successor of the stored one and the proof is a
\* quorum of signatures over it; otherwise the call reverts.
UpdateLightClientAccepts(data) ==
    /\ data.header.type = "BlockHeader"
    /\ data.proof.type = "FinalizationProof"
    /\ LET new == data.header.data
           last == lastHeader.data
       IN /\ new.height = last.height + 1
          /\ new.previous_hash = HeaderHash(last)
          /\ data.proof.data.signed = HeaderHash(new)
          /\ data.proof.data.quorum

\* A treasury that does not compare the execution's sequence with its own.
ExecuteAcceptsAnySequence(data) ==
    /\ data.transaction.type = "Transaction"
    /\ data.execution.type = "Execution"
    /\ data.merkleProof.type = "MerkleProof"
    /\ data.blockHeight \in 1..Len(commitRoots)
    /\ data.merkleProof.data.root = commitRoots[data.blockHeight]
    /\ data.merkleProof.data.leaf = data.transaction.data
    /\ data.execution.data =
            ConvertTransactionToExecution(data.transaction.data).execution
    /\ data.execution.data.message.amount <= balance["treasury"]

\* A treasury that checks the proof against the root the proof names,
\* whether or not its light client has been advanced to the block.
ExecuteAcceptsUntrustedHeight(data) ==
    /\ data.transaction.type = "Transaction"
    /\ data.execution.type = "Execution"
    /\ data.merkleProof.type = "MerkleProof"
    /\ data.blockHeight \in Heights
    /\ data.merkleProof.data.root = Block(data.blockHeight).commit_merkle_root
    /\ data.merkleProof.data.leaf = data.transaction.data
    /\ data.execution.data =
            ConvertTransactionToExecution(data.transaction.data).execution
    /\ data.execution.data.contract_sequence = contractSequence
    /\ data.execution.data.message.amount <= balance["treasury"]

\* execute(transaction, execution, blockHeight, merkleProof): (a) the block
\* is one the light client trusts, (b) the proof shows the transaction in
\* that block's commit root, the execution is the one the transaction
\* carries, (c) its sequence is the contract's, (d) the token transfer goes
\* through; otherwise the call reverts.
ExecuteAccepts(data) ==
    /\ data.transaction.type = "Transaction"
    /\ data.execution.type = "Execution"
    /\ data.merkleProof.type = "MerkleProof"
    /\ data.blockHeight \in 1..Len(commitRoots)
    /\ data.merkleProof.data.root = commitRoots[data.blockHeight]
    /\ data.merkleProof.data.leaf = data.transaction.data
    /\ data.execution.data =
            ConvertTransactionToExecution(data.transaction.data).execution
    /\ data.execution.data.contract_sequence = contractSequence
    /\ data.execution.data.message.amount <= balance["treasury"]

ContractAccepts(data) ==
    IF data.fn = "updateLightClient"
    THEN UpdateLightClientAccepts(data)
    ELSE ExecuteAccepts(data)

\* A treasury that advances its sequence on every accepted call.
ContractApplyCountsEveryCall(data) ==
    IF data.fn = "updateLightClient"
    THEN /\ lastHeader' = data.header
         /\ commitRoots' =
                Append(commitRoots, data.header.data.commit_merkle_root)
         /\ contractSequence' = contractSequence + 1
         /\ UNCHANGED balance
    ELSE /\ contractSequence' = contractSequence + 1
         /\ balance' =
                [balance EXCEPT
                    !["treasury"] = @ - data.execution.data.message.amount,
                    !["R"] = @ + data.execution.data.message.amount]
         /\ UNCHANGED <<lastHeader, commitRoots>>

\* The state the contract is left in by an accepted call.
ContractApply(data) ==
    IF data.fn = "updateLightClient"
    THEN /\ lastHeader' = data.header
         /\ commitRoots' =
                Append(commitRoots, data.header.data.commit_merkle_root)
         /\ UNCHANGED <<contractSequence, balance>>
    ELSE /\ contractSequence' = contractSequence + 1
         /\ balance' =
                [balance EXCEPT
                    !["treasury"] = @ - data.execution.data.message.amount,
                    !["R"] = @ + data.execution.data.message.amount]
         /\ UNCHANGED <<lastHeader, commitRoots>>

\* ------------------------------------------------------------ adapter
\* The arguments of contract.update_light_client(header, proof).
UpdateCalldata(hdr, fproof) ==
    [fn |-> "updateLightClient",
     header |-> SpbToVec("BlockHeader", hdr),
     proof |-> SpbToVec("FinalizationProof", fproof)]

\* An adapter that counts block heights from zero.
ExecuteCalldataHeightFromZero(tx, height, mproof) ==
    [fn |-> "execute",
     transaction |-> SpbToVec("Transaction", tx),
     execution |->
        SpbToVec("Execution", ConvertTransactionToExecution(tx).execution),
     blockHeight |-> height - 1,
     merkleProof |-> SpbToVec("MerkleProof", mproof)]

\* An adapter that submits the latest height the light client trusts in
\* place of the caller's.
ExecuteCalldataLatestHeight(tx, height, mproof) ==
    [fn |-> "execute",
     transaction |-> SpbToVec("Transaction", tx),
     execution |->
        SpbToVec("Execution", ConvertTransactionToExecution(tx).execution),
     blockHeight |-> Len(commitRoots),
     merkleProof |-> SpbToVec("MerkleProof", mproof)]

\* The arguments of contract.execute(transaction, execution, height, proof).
ExecuteCalldata(tx, height, mproof) ==
    [fn |-> "execute",
     transaction |-> SpbToVec("Transaction", tx),
     execution |->
        SpbToVec("Execution", ConvertTransactionToExecution(tx).execution),
     blockHeight |-> height,
     merkleProof |-> SpbToVec("MerkleProof", mproof)]

\* An adapter whose transactions carry the caller's arguments for the first
\* relayer only.
CalldataOfFirstRelayerOnly(c) ==
    IF c.who # "r1"
    THEN UpdateCalldata(GenesisHeader, FinalizationProofOf(GenesisHeader))
    ELSE IF c.op = "update"
    THEN UpdateCalldata(c.hdr, c.fproof)
    ELSE ExecuteCalldata(c.tx, c.height, c.mproof)

\* The transaction a call signs.
CalldataOf(c) ==
    IF c.op = "update"
    THEN UpdateCalldata(c.hdr, c.fproof)
    ELSE ExecuteCalldata(c.tx, c.height, c.mproof)

\* What the callers pass to update_treasury_light_client: a finalized
\* header with its proof; block 1 with signatures short of the quorum; a
\* header at height 1 that was never finalized, with the proof of block 1.
UpdateInputs ==
    {<<Block(h), FinalizationProofOf(Block(h))>> : h \in Heights}
    \cup {<<Block(1), NoQuorumProofOf(Block(1))>>,
          <<ForgedBlock(1), FinalizationProofOf(Block(1))>>}

\* What the callers pass to execute: a committed transaction with its block
\* and its proof; with the proof of another transaction of the block; with
\* another block height; a transaction that is no execution transaction.
ExecuteInputs ==
    UNION {{<<ExecutionTx(m), h, MerkleProofOf(h, m)>> : m \in CommittedIn(h)} :
           h \in Heights}
    \cup {<<ExecutionTx(Msg(1, 0)), 1, MerkleProofOf(1, Msg(3, 0))>>,
          <<ExecutionTx(Msg(1, 0)), 2, MerkleProofOf(1, Msg(1, 0))>>,
          <<PlainTx, 1, MerkleProofOf(1, Msg(1, 0))>>}

\* The outcomes of an RPC round trip.
RpcUp == "up"
RpcDown == "down"          \* the request never reached the node
RpcLost == "lost"          \* the node acted, its response was lost

\* At most MaxFaults round trips fail.
Fault(rpc) ==
    /\ rpc # RpcUp => faults < MaxFaults
    /\ faults' = IF rpc # RpcUp THEN faults + 1 ELSE faults

DoneCalls == {i \in 1..Len(calls) : calls[i].pc = "done"}

NoCalldata == [fn |-> "none"]
NoProof == FinalizationProofOf(GenesisHeader)
NoMerkleProof == MerkleProofOf(1, Msg(1, 0))

NewCall(op, who, hdr, fproof, tx, height, mproof) ==
    [op |-> op, who |-> who, hdr |-> hdr, fproof |-> fproof, tx |-> tx,
     height |-> height, mproof |-> mproof,
     pc |-> "done", result |-> "Ok", cause |-> "none",
     nonce |-> nonce[who],
     \* the contract sequence when execute was called
     seqAt |-> IF op = "execute" THEN contractSequence ELSE 0,
     \* the calls that had returned when this one was made
     after |-> DoneCalls,
     \* the latest block when a read operation was called
     blockAt |-> IF op \in {"update", "execute"} THEN 0 ELSE blockNumber,
     \* the _address argument of a balance query
     address |-> "",
     \* what a read operation returned: a header, a number, a string
     got |-> GenesisHeader, val |-> 0, name |-> "",
     \* the calldata send() went to the node with; none before send()
     data |-> NoCalldata]

\* An adapter that sends again when the round trip of a send fails.
ReturnedUnlessTransport(c, result, cause) ==
    IF cause = "transport" /\ c.pc = "signed"
    THEN c
    ELSE [c EXCEPT !.pc = "done", !.result = result, !.cause = cause]

Returned(c, result, cause) ==
    [c EXCEPT !.pc = "done", !.result = result, !.cause = cause]

\* self.treasury ... .address.parse::<Address>()
TreasuryError ==
    IF treasury = "none" THEN "Treasury is not set" ELSE "Invalid address"

\* The gas estimate of `send()` runs the call on the latest state; a call
\* that would revert is an error of send() and nothing is broadcast.
Estimated(c, failure) ==
    LET sent == [c EXCEPT !.data = CalldataOf(c)]
    IN IF ContractAccepts(sent.data)
       THEN [sent EXCEPT !.pc = "signed", !.result = "pending"]
       ELSE Returned(sent, failure, "revert")

\* An adapter that refuses execute until it has been asked to update the
\* light client.
FilledInOrder(c, rpc, failure) ==
    IF c.op = "execute" /\ \A k \in 1..Len(calls) : calls[k].op # "update"
    THEN Returned(c, "Light client not updated", "none")
    ELSE IF rpc # RpcUp
    THEN Returned(c, failure, "transport")
    ELSE Estimated(c, failure)

\* The part of `send()` before the broadcast: the nonce is read at the
\* latest block, then the gas is estimated.  An RPC failure is an error.
Filled(c, rpc, failure) ==
    IF rpc # RpcUp
    THEN Returned(c, failure, "transport")
    ELSE Estimated(c, failure)

\* update_treasury_light_client, up to the signed transaction.  fault is
\* the round trip that fails: "chainid" (get_chainid) or "send".
UpdateTreasuryLightClient(who, hdr, fproof, fault) ==
    /\ Len(calls) < MaxCalls
    /\ Fault(IF fault = "none" THEN RpcUp ELSE RpcDown)
    /\ LET c == NewCall("update", who, hdr, fproof, PlainTx, 1, NoMerkleProof)
       IN calls' = Append(calls,
            IF fault = "chainid" THEN Returned(c, "panic", "transport")
            ELSE IF treasury # "ok" THEN Returned(c, TreasuryError, "none")
            ELSE Filled(c, IF fault = "send" THEN RpcDown ELSE RpcUp,
                        "Failed to update light client"))
    /\ UNCHANGED <<config, chain, nonce, mempool, log, blockNumber>>

\* execute, up to the signed transaction.
Execute(who, tx, height, mproof, fault) ==
    /\ Len(calls) < MaxCalls
    /\ Fault(IF fault = "none" THEN RpcUp ELSE RpcDown)
    /\ LET c == NewCall("execute", who, GenesisHeader, NoProof,
                        tx, height, mproof)
       IN calls' = Append(calls,
            IF fault = "chainid" THEN Returned(c, "panic", "transport")
            ELSE IF treasury # "ok" THEN Returned(c, TreasuryError, "none")
            ELSE IF ~ConvertTransactionToExecution(tx).ok
            THEN Returned(c, "Failed to convert transaction to execution",
                          "none")
            ELSE Filled(c, IF fault = "send" THEN RpcDown ELSE RpcUp,
                        "Failed to execute"))
    /\ UNCHANGED <<config, chain, nonce, mempool, log, blockNumber>>

SendFailure(c) ==
    IF c.op = "update" THEN "Failed to update light client"
    ELSE "Failed to execute"

\* Whether the node is handed the signed transaction of a call whose
\* broadcast round trip ended as rpc.
Delivered(rpc) == rpc # RpcDown

\* A node that pools a delivered transaction whatever its nonce.
TakenByNodeAnyNonce(c, rpc) == Delivered(rpc)

\* The node pools a delivered transaction unless its nonce is used up.
TakenByNode(c, rpc) == Delivered(rpc) /\ c.nonce >= nonce[c.who]

\* The end of `send()`: the signed transaction goes to the node.  The node
\* refuses a nonce below the account's; the call returns Ok once the node
\* has taken the transaction.  When the response is lost the transaction
\* may be in the pool although the call returns an error.
Broadcast(i, rpc) ==
    /\ i \in 1..Len(calls)
    /\ calls[i].pc = "signed"
    /\ Fault(rpc)
    /\ LET c == calls[i]
           low == c.nonce < nonce[c.who]
       IN /\ calls' = [calls EXCEPT ![i] =
                IF rpc # RpcUp THEN Returned(c, SendFailure(c), "transport")
                ELSE IF low THEN Returned(c, SendFailure(c), "nonce")
                ELSE Returned(c, "Ok", "none")]
          /\ mempool' =
                IF TakenByNode(c, rpc) THEN mempool \cup {i} ELSE mempool
    /\ UNCHANGED <<config, chain, nonce, log, blockNumber>>

\* A chain that does not count the transactions of an account.
MineAnyNonce(i) ==
    /\ i \in mempool
    /\ LET c == calls[i]
           data == c.data
           accepted == ContractAccepts(data)
       IN /\ IF accepted THEN ContractApply(data) ELSE UNCHANGED chain
          /\ log' = Append(log, [call |-> i, accepted |-> accepted,
                                 data |-> data])
          /\ blockNumber' = blockNumber + 1
          /\ mempool' = mempool \ {i}
    /\ UNCHANGED <<config, nonce, calls, faults>>

\* The chain mines the pending transaction of an account's next nonce.
\* A reverted call leaves the contract as it was; either way the nonce is
\* used, and pending transactions of a used nonce are dropped.
Mine(i) ==
    /\ i \in mempool
    /\ calls[i].nonce = nonce[calls[i].who]
    /\ LET c == calls[i]
           data == c.data
           accepted == ContractAccepts(data)
       IN /\ IF accepted THEN ContractApply(data) ELSE UNCHANGED chain
          /\ log' = Append(log, [call |-> i, accepted |-> accepted,
                                 data |-> data])
          /\ blockNumber' = blockNumber + 1
          /\ nonce' = [nonce EXCEPT ![c.who] = @ + 1]
          /\ mempool' =
                {j \in mempool \ {i} :
                    calls[j].who # c.who \/ calls[j].nonce > c.nonce}
    /\ UNCHANGED <<config, calls, faults>>

\* A get_light_client_header that sends a transaction for its query, using
\* up a nonce of the relayer.
GetLightClientHeaderBySend(rpc) ==
    /\ Len(calls) < MaxCalls
    /\ Fault(rpc)
    /\ LET c == NewCall("get_header", "r1", GenesisHeader, NoProof,
                        PlainTx, 1, NoMerkleProof)
           decoded == BincodeDeserializeHeader(lastHeader)
       IN calls' = Append(calls,
            IF treasury = "none" THEN Returned(c, "Treasury is not set", "none")
            ELSE IF treasury = "bad"
            THEN Returned(c, "Invalid treasury address", "none")
            ELSE IF rpc # RpcUp THEN Returned(c, "panic", "transport")
            ELSE IF ~decoded.ok THEN Returned(c, "panic", "decode")
            ELSE [c EXCEPT !.got = decoded.header])
    /\ nonce' = [nonce EXCEPT !["r1"] = @ + 1]
    /\ UNCHANGED <<config, chain, mempool, log, blockNumber>>

\* get_light_client_header: one contract call, decoded with bincode.
GetLightClientHeader(rpc) ==
    /\ Len(calls) < MaxCalls
    /\ Fault(rpc)
    /\ LET c == NewCall("get_header", "r1", GenesisHeader, NoProof,
                        PlainTx, 1, NoMerkleProof)
           decoded == BincodeDeserializeHeader(lastHeader)
       IN calls' = Append(calls,
            IF treasury = "none" THEN Returned(c, "Treasury is not set", "none")
            ELSE IF treasury = "bad"
            THEN Returned(c, "Invalid treasury address", "none")
            ELSE IF rpc # RpcUp THEN Returned(c, "panic", "transport")
            ELSE IF ~decoded.ok THEN Returned(c, "panic", "decode")
            ELSE [c EXCEPT !.got = decoded.header])
    /\ UNCHANGED <<config, chain, nonce, mempool, log, blockNumber>>

\* ------------------------------------------------------ address codec
\* An Address (H160) is 20 bytes; its hex string with the prefix has
\* ADDRESS_HEX_LEN_WITH_PREFIX characters.  A string is the sequence of its
\* characters.
AddressLen == 20
ADDRESS_HEX_LEN_WITH_PREFIX == 42

LowerHex ==
    <<"0", "1", "2", "3", "4", "5", "6", "7", "8", "9",
      "a", "b", "c", "d", "e", "f">>
UpperHex ==
    <<"0", "1", "2", "3", "4", "5", "6", "7", "8", "9",
      "A", "B", "C", "D", "E", "F">>
Whitespace == {" ", "\t", "\n", "\r"}

\* hex::encode: two lower-case digits for each byte.
HexEncode(bytes) ==
    [k \in 1..(2 * Len(bytes)) |->
        IF k % 2 = 1
        THEN LowerHex[(bytes[(k + 1) \div 2] \div 16) + 1]
        ELSE LowerHex[(bytes[k \div 2] % 16) + 1]]

\* address.push_str("0x"); address.push_str(encoded.as_str()).
FormatAddress(bytes) == <<"0", "x">> \o HexEncode(bytes)

\* The hex digits of either case, each with its value.
HexDigits == {LowerHex[d] : d \in 1..16} \cup {UpperHex[d] : d \in 1..16}
HexDigitValue ==
    [ch \in HexDigits |->
        IF \E d \in 1..16 : LowerHex[d] = ch
        THEN (CHOOSE d \in 1..16 : LowerHex[d] = ch) - 1
        ELSE (CHOOSE d \in 1..16 : UpperHex[d] = ch) - 1]

\* The value of a hex digit; -1 for any other character.
HexValue(ch) == IF ch \in HexDigits THEN HexDigitValue[ch] ELSE 0 - 1

\* The hex decoder behind Address::from_str: it passes over white space,
\* fails on any other character that is no hex digit and on an odd number
\* of digits, and joins each two digits into a byte.
FromHex(input) ==
    LET digits == SelectSeq(input, LAMBDA ch : ch \notin Whitespace)
    IN IF \E k \in 1..Len(digits) : HexValue(digits[k]) < 0
       THEN [ok |-> FALSE, bytes |-> <<>>]
       ELSE IF Len(digits) % 2 = 1
       THEN [ok |-> FALSE, bytes |-> <<>>]
       ELSE [ok |-> TRUE,
             bytes |-> [k \in 1..(Len(digits) \div 2) |->
                          16 * HexValue(digits[2 * k - 1])
                             + HexValue(digits[2 * k])]]

\* str::parse::<Address>(): an "0x" at the front is dropped, the rest is
\* decoded, and the decoded bytes must be AddressLen many.
ParseAddress(str) ==
    LET input == IF Len(str) >= 2 /\ str[1] = "0" /\ str[2] = "x"
                 THEN SubSeq(str, 3, Len(str))
                 ELSE str
        decoded == FromHex(input)
    IN IF decoded.ok /\ Len(decoded.bytes) = AddressLen
       THEN decoded
       ELSE [ok |-> FALSE, bytes |-> <<>>]

\* The addresses formatted and parsed: for each byte value one address
\* that holds it, at every position next to other values.
AddressOf(b) == [k \in 1..AddressLen |-> (b + 17 * k) % 256]
Addresses == {AddressOf(b) : b \in 0..255}

\* The digits of a hex string in upper case.
UpperCased(str) == [k \in 1..Len(str) |-> UpperHex[HexValue(str[k]) + 1]]

\* The strings given to a parse: the hex string of an address with the
\* prefix, that of another in upper case without it, and what up to
\* MaxEdits changes of one character (a character replaced, inserted or
\* removed, in the first three places or the last) make of them.
EditCharacters == {"g", " "}
EditPlaces(str) == {k \in {1, 2, 3, Len(str)} : k <= Len(str)}

EditedOnce(str) ==
    {[str EXCEPT ![k] = ch] : k \in EditPlaces(str), ch \in EditCharacters}
    \cup {SubSeq(str, 1, k) \o <<ch>> \o SubSeq(str, k + 1, Len(str)) :
            k \in {0} \cup EditPlaces(str), ch \in EditCharacters}
    \cup {SubSeq(str, 1, k - 1) \o SubSeq(str, k + 1, Len(str)) :
            k \in EditPlaces(str)}

RECURSIVE Edited(_, _)
Edited(strs, n) ==
    IF n = 0 THEN strs
    ELSE Edited(strs \cup UNION {EditedOnce(str) : str \in strs}, n - 1)

AddressStrings ==
    Edited({FormatAddress(AddressOf(0)), UpperCased(HexEncode(AddressOf(171)))},
           MaxEdits)

\* The address strings a treasury is configured with: the two hex strings
\* and each with a character after it.
TreasuryAddressStrings ==
    LET strs == {FormatAddress(AddressOf(0)),
                 UpperCased(HexEncode(AddressOf(171)))}
    IN strs \cup {str \o <<ch>> : str \in strs, ch \in EditCharacters}

\* ------------------------------------------------- numeric conversions
\* A uint256 as high * 2^128 + mid * 2^96 + low, with low below 2^96.
U256Of(high, mid, low) == [high |-> high, mid |-> mid, low |-> low]

\* U256::as_u128: the value when it is below 2^128; panics otherwise.
AsU128(v) == [ok |-> v.high = 0, value |-> [mid |-> v.mid, low |-> v.low]]

\* Decimal::from(u128): a Decimal holds 96 bits; from_u128(..).unwrap()
\* panics on a larger value.
DecimalFromU128(u) == [ok |-> u.mid = 0, value |-> u.low]

\* The token contracts asked: T, the token the treasury pays out; V and W,
\* tokens of which the treasury holds 2^96 and 2^128 units.
TokenAddresses == {"T", "V", "W"}
NotAnAddress == "0xzz"

\* IERC20(token).balanceOf(treasury).
TokenBalanceOf(token) ==
    IF token = "T" THEN U256Of(0, 0, balance["treasury"])
    ELSE IF token = "V" THEN U256Of(0, 1, 0)
    ELSE U256Of(1, 0, 0)

\* provider.get_balance(relayer_address): the first relayer holds one unit
\* of the native asset, the second one 2^96 units.
NativeBalanceOf(who) ==
    IF who = "r1" THEN U256Of(0, 0, 1) ELSE U256Of(0, 1, 0)

\* wallet.address(): the address of the key the relayer's mnemonic derives.
WalletAddress(who) == AddressOf(IF who = "r1" THEN 0 ELSE 171)

\* An adapter that leaves out the prefix.
RelayerAddressHexUnprefixed(who) == HexEncode(WalletAddress(who))

\* "0x" and hex::encode(wallet.address().to_fixed_bytes()).
RelayerAddressHex(who) == FormatAddress(WalletAddress(who))

\* For each relayer the address string and Address::from_str of it.
RelayerAddress ==
    [who \in Relayers |->
        [hex |-> RelayerAddressHex(who),
         parsed |-> ParseAddress(RelayerAddressHex(who))]]

\* A read operation: its call frame, returned at once.
ReadCall(op, who) ==
    NewCall(op, who, GenesisHeader, NoProof, PlainTx, 1, NoMerkleProof)

\* The end of a balance query: as_u128, then Decimal::from.
Converted(c, v) ==
    IF ~AsU128(v).ok THEN Returned(c, "panic", "overflow")
    ELSE IF ~DecimalFromU128(AsU128(v).value).ok
    THEN Returned(c, "panic", "overflow")
    ELSE [c EXCEPT !.val = DecimalFromU128(AsU128(v).value).value]

\* get_chain_name.
GetChainName ==
    /\ Len(calls) < MaxCalls
    /\ calls' = Append(calls,
            [ReadCall("get_chain_name", "r1") EXCEPT
                !.name = ChainTypeGetChainName(chainType)])
    /\ UNCHANGED <<config, chain, nonce, mempool, log, blockNumber, faults>>

\* check_connection: one get_block_number round trip.
CheckConnection(rpc) ==
    /\ Len(calls) < MaxCalls
    /\ Fault(rpc)
    /\ LET c == ReadCall("check_connection", "r1")
       IN calls' = Append(calls,
            IF rpc # RpcUp
            THEN Returned(c, "Failed to connect to chain", "transport")
            ELSE c)
    /\ UNCHANGED <<config, chain, nonce, mempool, log, blockNumber>>

\* A get_last_block that asks for BlockNumber::Earliest.
GetLastBlockEarliest(rpc) ==
    /\ Len(calls) < MaxCalls
    /\ Fault(rpc)
    /\ LET c == ReadCall("get_last_block", "r1")
       IN calls' = Append(calls,
            IF rpc # RpcUp THEN Returned(c, "ProviderError", "transport")
            ELSE [c EXCEPT !.val = 0])
    /\ UNCHANGED <<config, chain, nonce, mempool, log, blockNumber>>

\* get_last_block: the number of the latest block of the destination chain.
GetLastBlock(rpc) ==
    /\ Len(calls) < MaxCalls
    /\ Fault(rpc)
    /\ LET c == ReadCall("get_last_block", "r1")
       IN calls' = Append(calls,
            IF rpc # RpcUp THEN Returned(c, "ProviderError", "transport")
            ELSE [c EXCEPT !.val = blockNumber])
    /\ UNCHANGED <<config, chain, nonce, mempool, log, blockNumber>>

\* get_relayer_account_info.  fault is the round trip that fails:
\* "chainid" (get_chainid) or "balance" (get_balance).
GetRelayerAccountInfo(who, fault) ==
    /\ Len(calls) < MaxCalls
    /\ Fault(IF fault = "none" THEN RpcUp ELSE RpcDown)
    /\ LET c == [ReadCall("get_relayer_account_info", who) EXCEPT
                    !.name = RelayerAddress[who].hex]
       IN calls' = Append(calls,
            IF fault = "chainid" THEN Returned(c, "panic", "transport")
            ELSE IF ~RelayerAddress[who].parsed.ok
            THEN Returned(c, "FromHexError", "none")
            ELSE IF fault = "balance"
            THEN Returned(c, "ProviderError", "transport")
            ELSE Converted(c, NativeBalanceOf(who)))
    /\ UNCHANGED <<config, chain, nonce, mempool, log, blockNumber>>

\* get_treasury_fungible_token_balance(_address).
GetTreasuryFungibleTokenBalance(address, rpc) ==
    /\ Len(calls) < MaxCalls
    /\ Fault(rpc)
    /\ LET c == [ReadCall("get_treasury_fungible_token_balance", "r1") EXCEPT
                    !.address = address]
       IN calls' = Append(calls,
            IF treasury # "ok" THEN Returned(c, TreasuryError, "none")
            ELSE IF address \notin TokenAddresses
            THEN Returned(c, "Invalid address", "none")
            ELSE IF rpc # RpcUp THEN Returned(c, "panic", "transport")
            ELSE Converted(c, TokenBalanceOf(address)))
    /\ UNCHANGED <<config, chain, nonce, mempool, log, blockNumber>>

\* A query that answers with no tokens.
GetTreasuryNonFungibleTokenBalanceEmpty(address) ==
    /\ Len(calls) < MaxCalls
    /\ calls' = Append(calls,
            [ReadCall("get_treasury_non_fungible_token_balance", "r1") EXCEPT
                !.address = address])
    /\ UNCHANGED <<config, chain, nonce, mempool, log, blockNumber, faults>>

\* get_treasury_non_fungible_token_balance(_address): todo!().
GetTreasuryNonFungibleTokenBalance(address) ==
    /\ Len(calls) < MaxCalls
    /\ calls' = Append(calls,
            Returned([ReadCall("get_treasury_non_fungible_token_balance", "r1")
                        EXCEPT !.address = address],
                     "panic", "todo"))
    /\ UNCHANGED <<config, chain, nonce, mempool, log, blockNumber, faults>>

\* The destination chain produces a block that holds no transaction of a
\* call: time passes, other accounts transact.
ProduceBlock ==
    /\ blockNumber - Len(log) < MaxEmptyBlocks
    /\ blockNumber' = blockNumber + 1
    /\ UNCHANGED <<config, chain, nonce, mempool, calls, log, faults>>

\* The adapter is constructed against a deployed treasury: its light client
\* holds the genesis header, or has been advanced to block 1 already.
Init ==
    /\ chainType = EthereumChain
    /\ treasury \in {"none", "bad", "ok"}
    /\ \E h \in {0, 1} :
        /\ lastHeader = SpbToVec("BlockHeader", Block(h))
        /\ commitRoots = [k \in 1..h |-> Block(k).commit_merkle_root]
    /\ contractSequence = 0
    /\ balance = [a \in {"treasury", "R"} |->
                    IF a = "treasury" THEN InitBalance ELSE 0]
    /\ nonce = [r \in Relayers |-> 0]
    /\ mempool = {}
    /\ calls = <<>>
    /\ log = <<>>
    /\ blockNumber = 0
    /\ faults = 0

\* A round trip that fails before the arguments are used fails alike for
\* all arguments: the failing calls are made with the first valid ones.
Faults == {"chainid", "send"}

Next ==
    \/ \E who \in Relayers, in \in UpdateInputs :
            UpdateTreasuryLightClient(who, in[1], in[2], "none")
    \/ \E fault \in Faults :
            UpdateTreasuryLightClient("r1", Block(1),
                FinalizationProofOf(Block(1)), fault)
    \/ \E who \in Relayers, in \in ExecuteInputs :
            Execute(who, in[1], in[2], in[3], "none")
    \/ \E fault \in Faults :
            Execute("r1", ExecutionTx(Msg(1, 0)), 1,
                MerkleProofOf(1, Msg(1, 0)), fault)
    \/ \E i \in 1..MaxCalls, rpc \in {RpcUp, RpcDown, RpcLost} :
            Broadcast(i, rpc)
    \/ \E i \in 1..MaxCalls : Mine(i)
    \/ \E rpc \in {RpcUp, RpcDown} : GetLightClientHeader(rpc)

Spec == Init /\ [][Next]_vars

\* ----------------------------------------------- the read operations
\* Bytes that are no encoding of a BlockHeader: the header of a treasury
\* deployed with another schema.
OtherSchemaHeader == SpbToVec("BlockHeaderV0", GenesisHeader)

\* The adapter in any of its configurations.  With a treasury configured
\* the treasury is at the genesis header, advanced to block 1, or holds a
\* header of another schema; without one no operation reaches the treasury
\* and it stays at the genesis header.
ReadInit ==
    /\ chainType \in ChainTypes
    /\ treasury \in {"none", "bad", "ok"}
    /\ \/ \E h \in {0, 1} :
            /\ treasury # "ok" => h = 0
            /\ lastHeader = SpbToVec("BlockHeader", Block(h))
            /\ commitRoots = [k \in 1..h |-> Block(k).commit_merkle_root]
       \/ /\ treasury = "ok"
          /\ lastHeader = OtherSchemaHeader
          /\ commitRoots = <<>>
    /\ contractSequence = 0
    /\ balance = [a \in {"treasury", "R"} |->
                    IF a = "treasury" THEN InitBalance ELSE 0]
    /\ nonce = [r \in Relayers |-> 0]
    /\ mempool = {}
    /\ calls = <<>>
    /\ log = <<>>
    /\ blockNumber = 0
    /\ faults = 0

\* All operations of the adapter, the writing ones with block 1 and a
\* transfer it commits.
ReadNext ==
    \/ GetChainName
    \/ \E rpc \in {RpcUp, RpcDown} : CheckConnection(rpc)
    \/ \E rpc \in {RpcUp, RpcDown} : GetLastBlock(rpc)
    \/ \E who \in Relayers : GetRelayerAccountInfo(who, "none")
    \/ \E fault \in {"chainid", "balance"} :
            GetRelayerAccountInfo("r1", fault)
    \/ \E rpc \in {RpcUp, RpcDown} : GetLightClientHeader(rpc)
    \/ \E address \in TokenAddresses \cup {NotAnAddress} :
            GetTreasuryFungibleTokenBalance(address, RpcUp)
    \/ GetTreasuryFungibleTokenBalance("T", RpcDown)
    \/ UpdateTreasuryLightClient("r1", Block(1),
            FinalizationProofOf(Block(1)), "none")
    \/ Execute("r1", ExecutionTx(Msg(1, 0)), 1,
            MerkleProofOf(1, Msg(1, 0)), "none")
    \/ \E i \in 1..MaxCalls : Broadcast(i, RpcUp)
    \/ \E i \in 1..MaxCalls : Mine(i)
    \/ ProduceBlock

ReadSpec == ReadInit /\ [][ReadNext]_vars

\* ---------------------------------------------- the NFT balance query
\* The adapter in any of its configurations; the NFT balance is asked with
\* any argument while block 1 and a transfer it commits are relayed.
NftNext ==
    \/ \E address \in TokenAddresses \cup {NotAnAddress} :
            GetTreasuryNonFungibleTokenBalance(address)
    \/ UpdateTreasuryLightClient("r1", Block(1),
            FinalizationProofOf(Block(1)), "none")
    \/ Execute("r1", ExecutionTx(Msg(1, 0)), 1,
            MerkleProofOf(1, Msg(1, 0)), "none")
    \/ \E i \in 1..MaxCalls : Broadcast(i, RpcUp)
    \/ \E i \in 1..MaxCalls : Mine(i)
    \/ ProduceBlock

NftSpec == ReadInit /\ [][NftNext]_vars

\* --------------------------------------------------- the display name
\* The adapter constructed with any chain type; get_chain_name is called.
NameInit ==
    /\ chainType \in AllChainTypes
    /\ treasury \in {"none", "bad", "ok"}
    /\ lastHeader = SpbToVec("BlockHeader", GenesisHeader)
    /\ commitRoots = <<>>
    /\ contractSequence = 0
    /\ balance = [a \in {"treasury", "R"} |->
                    IF a = "treasury" THEN InitBalance ELSE 0]
    /\ nonce = [r \in Relayers |-> 0]
    /\ mempool = {}
    /\ calls = <<>>
    /\ log = <<>>
    /\ blockNumber = 0
    /\ faults = 0

NameNext == GetChainName

NameSpec == NameInit /\ [][NameNext]_vars

\* --------------------------------------------------- the address codec
\* The message of the error a failed parse is mapped to.
InvalidAddressMessage(op) ==
    IF op = "get_header" THEN "Invalid treasury address" ELSE "Invalid address"

\* The operations that parse the treasury's or a token's address.
ParsingOps ==
    {"get_header", "get_treasury_fungible_token_balance", "update", "execute"}

\* An address is formatted and the string parsed, as
\* get_relayer_account_info does with the relayer's; the parsed address is
\* formatted again.
FormatThenParse(bytes) ==
    /\ calls = <<>>
    /\ LET formatted == FormatAddress(bytes)
           parsed == ParseAddress(formatted)
       IN calls' =
            << [ReadCall("format_address", "r1") EXCEPT
                    !.name = formatted,
                    !.result = IF parsed.ok THEN "Ok" ELSE "FromHexError"]
               @@ [bytes |-> bytes, parsed |-> parsed.bytes,
                   again |-> FormatAddress(parsed.bytes)] >>
    /\ UNCHANGED <<config, chain, nonce, mempool, log, blockNumber, faults>>

\* An operation parses the address string it is configured with or given:
\* str.parse::<Address>().map_err(|_| Error::msg(..))?
ParseAddressIn(op, str) ==
    /\ calls = <<>>
    /\ LET parsed == ParseAddress(str)
       IN calls' =
            << [ReadCall("parse_address", "r1") EXCEPT
                    !.address = str,
                    !.result = IF parsed.ok THEN "Ok"
                               ELSE InvalidAddressMessage(op)]
               @@ [in |-> op, parsed |-> parsed.bytes] >>
    /\ UNCHANGED <<config, chain, nonce, mempool, log, blockNumber, faults>>

AddressInit ==
    /\ chainType = EthereumChain
    /\ treasury = "ok"
    /\ lastHeader = SpbToVec("BlockHeader", GenesisHeader)
    /\ commitRoots = <<>>
    /\ contractSequence = 0
    /\ balance = [a \in {"treasury", "R"} |->
                    IF a = "treasury" THEN InitBalance ELSE 0]
    /\ nonce = [r \in Relayers |-> 0]
    /\ mempool = {}
    /\ calls = <<>>
    /\ log = <<>>
    /\ blockNumber = 0
    /\ faults = 0

AddressNext ==
    \/ /\ calls = <<>>
       /\ \E bytes \in Addresses : FormatThenParse(bytes)
    \/ /\ calls = <<>>
       /\ \E op \in ParsingOps, str \in TreasuryAddressStrings :
                ParseAddressIn(op, str)
    \/ /\ calls = <<>>
       /\ \E str \in AddressStrings :
                ParseAddressIn("get_treasury_fungible_token_balance", str)

AddressSpec == AddressInit /\ [][AddressNext]_vars

\* ------------------------------------------------------------ claims
Calls == 1..Len(calls)
Mined == {log[k].call : k \in 1..Len(log)}
Accepted == {log[k].call : k \in {n \in 1..Len(log) : log[n].accepted}}

\* The step mines the transaction of call i.
MinedNow(i) ==
    /\ Len(log') = Len(log) + 1
    /\ log'[Len(log')].call = i

\* An execute call that got as far as send() with all round trips up.
ExecuteReachedSend(i) ==
    /\ calls[i].op = "execute"
    /\ calls[i].pc = "done"
    /\ treasury = "ok"
    /\ ConvertTransactionToExecution(calls[i].tx).ok
    /\ calls[i].cause \notin {"transport"}
    /\ calls[i].result # "panic"

\* Two calls that held their signed transactions at the same time: both
\* passed the gas estimate, the later before the earlier had returned.
Concurrent(i, j) ==
    /\ i < j
    /\ i \notin calls[j].after
    /\ calls[i].cause # "revert"
    /\ calls[j].cause # "revert"

\* C1: an execute whose message carries a contract_sequence other than the
\* treasury's current one fails locally with InvalidContractSequence,
\* before send() is reached.
C1_StaleSequenceFailsLocally ==
    \A i \in Calls :
        ( /\ ExecuteReachedSend(i)
          /\ calls[i].tx.body.contract_sequence # calls[i].seqAt )
        => /\ calls[i].result = "InvalidContractSequence"
           /\ calls[i].cause = "none"

\* C2: the contract sequence never decreases; it changes only in a step
\* that mines an accepted execute, and then by exactly one.
C2_SequenceMonotonic ==
    [][ /\ contractSequence' >= contractSequence
        /\ contractSequence' # contractSequence =>
            /\ contractSequence' = contractSequence + 1
            /\ \E i \in mempool :
                /\ calls[i].op = "execute"
                /\ MinedNow(i)
                /\ log'[Len(log')].accepted ]_vars

C2_Witness ==
    /\ contractSequence = 1
    /\ \E i, j \in Accepted :
        calls[i].op = "update" /\ calls[j].op = "execute"

\* C3: a bridge message (same transaction, block height and Merkle proof)
\* is applied on-chain at most once, however often it is submitted.
C3_AppliedAtMostOnce ==
    \A i, j \in Accepted :
        ( /\ calls[i].op = "execute" /\ calls[j].op = "execute"
          /\ calls[i].tx = calls[j].tx )
        => i = j

\* The same message was submitted twice and both transactions were mined.
C3_Witness ==
    \E i, j \in Mined :
        /\ i # j
        /\ calls[i].op = "execute" /\ calls[j].op = "execute"
        /\ calls[i].tx = calls[j].tx
        /\ calls[i].height = calls[j].height
        /\ calls[i].mproof = calls[j].mproof
        /\ i \in Accepted

\* C4: of two concurrent executes with the same contract_sequence at most
\* one is accepted on-chain, and the other one returns
\* InvalidContractSequence.
C4_RacingExecutes ==
    \A i, j \in Calls :
        ( /\ Concurrent(i, j)
          /\ ExecuteReachedSend(i) /\ ExecuteReachedSend(j)
          /\ calls[i].tx.body.contract_sequence =
                calls[j].tx.body.contract_sequence
          /\ {i, j} \cap Accepted # {} )
        => /\ ~({i, j} \subseteq Accepted)
           /\ \A k \in {i, j} \ Accepted :
                calls[k].result = "InvalidContractSequence"

\* C5: the stored header changes only in a step that mines an
\* update_treasury_light_client call whose proof, as the caller gave it, is
\* a quorum of signatures over the header the caller gave, and it becomes
\* that header.
C5_NoForgedHeader ==
    [][ lastHeader' # lastHeader =>
            \E i \in mempool :
                /\ MinedNow(i)
                /\ calls[i].op = "update"
                /\ calls[i].fproof.signed = HeaderHash(calls[i].hdr)
                /\ calls[i].fproof.quorum
                /\ BincodeDeserializeHeader(lastHeader').ok
                /\ BincodeDeserializeHeader(lastHeader').header = calls[i].hdr
      ]_vars

\* A header was submitted with a proof that is no quorum over it, a
\* finalized header with its proof, and the stored header is the latter.
C5_Witness ==
    /\ \E i \in Calls :
        /\ calls[i].op = "update"
        /\ calls[i].cause = "revert"
        /\ ~( /\ calls[i].fproof.signed = HeaderHash(calls[i].hdr)
              /\ calls[i].fproof.quorum )
    /\ \E i \in Accepted :
        /\ calls[i].op = "update"
        /\ lastHeader = SpbToVec("BlockHeader", calls[i].hdr)

\* C6: after update_treasury_light_client(h, p) has returned Ok, a
\* get_light_client_header called later, with no other update made,
\* returns h.
C6_ConfirmedAfterUpdate ==
    \A g, u \in Calls :
        ( /\ calls[g].op = "get_header"
          /\ calls[g].result = "Ok"
          /\ u \in calls[g].after
          /\ calls[u].op = "update"
          /\ calls[u].result = "Ok"
          /\ \A k \in Calls \ {u} : calls[k].op # "update" )
        => calls[g].got = calls[u].hdr

\* C7: mining a second update with a (header, proof) pair the light client
\* has accepted before is rejected and leaves header, commit roots,
\* sequence and balances as they were; every accepted header stays
\* recorded at its height.
C7_HeaderAdvanceIdempotent ==
    [][ /\ \A i \in mempool :
            ( /\ MinedNow(i)
              /\ calls[i].op = "update"
              /\ \E j \in Accepted :
                    /\ calls[j].op = "update"
                    /\ calls[j].hdr = calls[i].hdr
                    /\ calls[j].fproof = calls[i].fproof )
            => /\ ~log'[Len(log')].accepted
               /\ UNCHANGED chain
        /\ \A j \in Accepted :
            calls[j].op = "update" =>
                /\ Len(commitRoots') >= calls[j].hdr.height
                /\ commitRoots'[calls[j].hdr.height] =
                        calls[j].hdr.commit_merkle_root
                /\ lastHeader'.data.height >= calls[j].hdr.height
      ]_vars

\* The same pair was mined twice: accepted once, rejected once.
C7_Witness ==
    \E i \in Accepted, j \in Mined \ Accepted :
        /\ calls[i].op = "update" /\ calls[j].op = "update"
        /\ calls[i].hdr = calls[j].hdr
        /\ calls[i].fproof = calls[j].fproof
        /\ lastHeader = SpbToVec("BlockHeader", calls[i].hdr)

\* C8: an execute whose Merkle proof is the proof of another transaction
\* returns the error kind InvalidProof.
C8_BadProofIsInvalidProof ==
    \A i \in Calls :
        ( /\ ExecuteReachedSend(i)
          /\ calls[i].mproof.leaf # calls[i].tx )
        => calls[i].result = "InvalidProof"

\* An execute that returned an error which is no lost round trip.
ExecuteFailed(c) ==
    /\ c.op = "execute"
    /\ c.pc = "done"
    /\ c.result \notin {"Ok", "panic"}
    /\ c.cause \in {"none", "revert", "nonce"}

\* C9: an execute that returns an error (a revert found by the gas
\* estimate, a local failure, a used nonce) leaves header, commit roots,
\* sequence and balances as they were in the step it returns, and no
\* transaction of it is pending or mined afterwards.
C9_FailedExecuteChangesNothing ==
    [][ \A i \in 1..Len(calls') :
            ExecuteFailed(calls'[i]) =>
                /\ i \notin mempool'
                /\ \A k \in 1..Len(log') : log'[k].call # i
                /\ (i > Len(calls) \/ calls[i].pc # "done")
                        => UNCHANGED chain
      ]_vars

\* One execute failed for a revert, another one was applied.
C9_Witness ==
    /\ \E i \in Calls : ExecuteFailed(calls[i]) /\ calls[i].cause = "revert"
    /\ \E i \in Accepted : calls[i].op = "execute"

\* The light client trusts the block at c.height, the block commits the
\* transfer c carries at the treasury's sequence, the proof is the one of
\* that transfer in that block, and the treasury holds the amount.
ReadyToExecute(c) ==
    /\ c.op = "execute"
    /\ c.height \in 1..Len(commitRoots)
    /\ commitRoots[c.height] = Block(c.height).commit_merkle_root
    /\ c.tx.body \in CommittedIn(c.height)
    /\ c.tx = ExecutionTx(c.tx.body)
    /\ c.mproof = MerkleProofOf(c.height, c.tx.body)
    /\ c.tx.body.contract_sequence = contractSequence
    /\ c.tx.body.amount <= balance["treasury"]

AcceptedUpdates == {j \in Accepted : calls[j].op = "update"}

\* C11: an execute is accepted on-chain only for a block height the light
\* client has been advanced to, by an update accepted earlier or before the
\* adapter was constructed, and whose recorded root is the block's; an
\* execute called for a height beyond the stored header passes neither the
\* checks of send() nor the contract.
C11_SyncBeforeExecute ==
    [][ /\ \A i \in mempool :
            ( /\ MinedNow(i)
              /\ calls[i].op = "execute"
              /\ log'[Len(log')].accepted )
            => /\ calls[i].height \in 1..Len(commitRoots)
               /\ calls[i].height <= lastHeader.data.height
               /\ commitRoots[calls[i].height] =
                        Block(calls[i].height).commit_merkle_root
               /\ \/ \E j \in AcceptedUpdates :
                        calls[j].hdr = Block(calls[i].height)
                  \/ calls[i].height <=
                        Len(commitRoots) - Cardinality(AcceptedUpdates)
        /\ \A i \in mempool :
            ( /\ MinedNow(i)
              /\ calls[i].op = "execute"
              /\ calls[i].height > lastHeader.data.height )
            => ~log'[Len(log')].accepted /\ UNCHANGED chain
        /\ ( /\ Len(calls') = Len(calls) + 1
             /\ calls'[Len(calls')].op = "execute"
             /\ calls'[Len(calls')].height > lastHeader.data.height )
            => /\ calls'[Len(calls')].pc = "done"
               /\ calls'[Len(calls')].result # "Ok"
      ]_vars

\* One execute was accepted for a trusted block, another one was refused
\* for a block the light client has not been advanced to.
C11_Witness ==
    /\ \E i \in Accepted :
        /\ calls[i].op = "execute"
        /\ calls[i].height \in 1..Len(commitRoots)
    /\ \E j \in Calls :
        /\ calls[j].op = "execute"
        /\ calls[j].cause = "revert"
        /\ calls[j].height > Len(commitRoots)

\* A call of update_treasury_light_client or execute that got to send()
\* with its round trips up.
ReachedSend(c) ==
    /\ c.op \in {"update", "execute"}
    /\ treasury = "ok"
    /\ c.op = "execute" => ConvertTransactionToExecution(c.tx).ok
    /\ c.cause # "transport"

MinedOf(i) == {k \in 1..Len(log) : log[k].call = i}

\* C13: a call hands a transaction to the node in the one step that ends
\* its send(), and a call that has returned does nothing more, so each call
\* submits at most one transaction; a send() that fails (revert found by
\* the gas estimate, used nonce, failed round trip) ends the call with an
\* error.
C13_NoAutomaticRetries ==
    [][ \A i \in 1..Len(calls') :
            /\ i \in mempool' \ mempool =>
                /\ i <= Len(calls)
                /\ calls[i].pc = "signed"
                /\ calls'[i].pc = "done"
            /\ (i <= Len(calls) /\ calls[i].pc = "done") =>
                /\ calls'[i] = calls[i]
                /\ i \notin mempool' \ mempool
            /\ (i <= Len(calls) /\ calls[i].pc = "signed"
                    /\ calls'[i] # calls[i]) => calls'[i].pc = "done"
            /\ calls'[i].cause \in {"revert", "nonce", "transport"} =>
                /\ calls'[i].pc = "done"
                /\ calls'[i].result # "Ok"
            /\ Cardinality({k \in 1..Len(log') : log'[k].call = i}) <= 1
      ]_vars

\* The response of a broadcast was lost: the call returned an error and its
\* one transaction was mined.
C13_Witness ==
    \E i \in Calls :
        /\ calls[i].pc = "done"
        /\ calls[i].cause = "transport"
        /\ calls[i].result = SendFailure(calls[i])
        /\ Cardinality(MinedOf(i)) = 1

\* C14: update_treasury_light_client and execute return TransactionRejected
\* when the transaction reverts and ConnectionError when a round trip of
\* the submission fails before the verdict is known.
C14_RejectedVersusAmbiguous ==
    \A i \in Calls :
        ( /\ calls[i].op \in {"update", "execute"}
          /\ calls[i].pc = "done" )
        => /\ calls[i].cause = "revert" =>
                calls[i].result = "TransactionRejected"
           /\ (calls[i].cause = "transport" /\ calls[i].result # "panic") =>
                calls[i].result = "ConnectionError"

\* C15: a failed RPC round trip makes the operation return ConnectionError
\* to its caller; it does not abort the operation.
C15_TransportFailureIsConnectionError ==
    \A i \in Calls :
        calls[i].cause = "transport" =>
            /\ calls[i].result # "panic"
            /\ calls[i].result = "ConnectionError"

\* C16: when the bytes of lightClient() are no encoding of a header,
\* get_light_client_header returns the error InternalContractError.
C16_DecodeFailureIsInternalContractError ==
    \A i \in Calls :
        ( /\ calls[i].op = "get_header"
          /\ calls[i].cause = "decode" )
        => /\ calls[i].result # "panic"
           /\ calls[i].result = "InternalContractError"

\* C17: a balance that does not fit the u128 or the Decimal it is converted
\* to makes the balance query return InternalContractError; no truncated
\* or wrapped value is returned.
C17_NumericConversionFailsClosed ==
    \A i \in Calls :
        /\ calls[i].cause = "overflow" =>
                calls[i].result = "InternalContractError"
        /\ ( /\ calls[i].op = "get_treasury_fungible_token_balance"
             /\ calls[i].address \in {"V", "W"}
             /\ calls[i].result = "Ok" ) =>
                TokenBalanceOf(calls[i].address) = U256Of(0, 0, calls[i].val)
        /\ ( /\ calls[i].op = "get_relayer_account_info"
             /\ calls[i].result = "Ok" ) =>
                NativeBalanceOf(calls[i].who) = U256Of(0, 0, calls[i].val)

ReadOps ==
    {"get_chain_name", "check_connection", "get_last_block",
     "get_relayer_account_info", "get_header",
     "get_treasury_fungible_token_balance"}

\* What a read operation returned.
ReadResult(c) == <<c.result, c.cause, c.got, c.val, c.name>>

\* Two calls of one read operation with the same arguments, their round
\* trips up.
SameRead(c, d) ==
    /\ c.op \in ReadOps
    /\ c.op = d.op
    /\ c.who = d.who
    /\ c.address = d.address
    /\ c.cause # "transport"
    /\ d.cause # "transport"

\* C18, as stated: two calls of a read operation with no update or execute
\* called between them return the same result.
C18_SameResultWithoutUpdateOrExecute ==
    \A i, j \in Calls :
        ( /\ i < j
          /\ SameRead(calls[i], calls[j])
          /\ \A k \in Calls :
                (i < k /\ k < j) => calls[k].op \notin {"update", "execute"} )
        => ReadResult(calls[i]) = ReadResult(calls[j])

\* C18, amended: a read operation returns in the step it is called and
\* leaves the configuration, header, commit roots, sequence, balances,
\* nonces, pending and mined transactions as they were; what it returns is
\* what the chain holds; two calls of a read operation with the same
\* arguments and no block produced in between return the same result.
C18_ReadOperationsChangeNothing ==
    [][ /\ ( /\ Len(calls') = Len(calls) + 1
             /\ calls'[Len(calls')].op \in ReadOps )
            => LET c == calls'[Len(calls')]
               IN /\ UNCHANGED <<config, chain, nonce, mempool, log, blockNumber>>
                  /\ c.pc = "done"
                  /\ c.result = "Ok" =>
                        /\ c.op = "get_header" =>
                                SpbToVec("BlockHeader", c.got) = lastHeader
                        /\ c.op = "get_last_block" => c.val = blockNumber
                        /\ c.op = "get_treasury_fungible_token_balance" =>
                                c.address = "T" /\ c.val = balance["treasury"]
        /\ \A i, j \in 1..Len(calls') :
            ( /\ SameRead(calls'[i], calls'[j])
              /\ calls'[i].blockAt = calls'[j].blockAt )
            => ReadResult(calls'[i]) = ReadResult(calls'[j])
      ]_vars

\* The latest block was read twice with a block produced in between, and
\* twice with none in between.
C18_Witness ==
    \E i, j \in Calls :
        /\ i < j
        /\ calls[i].op = "get_last_block" /\ calls[j].op = "get_last_block"
        /\ calls[i].result = "Ok" /\ calls[j].result = "Ok"
        /\ calls[i].blockAt = calls[j].blockAt
        /\ calls[i].val = calls[j].val
        /\ blockNumber > calls[j].blockAt

\* A call the adapter itself ended with an error, before any round trip.
RejectedLocally(c) ==
    /\ c.pc = "done"
    /\ c.cause = "none"
    /\ c.result # "Ok"

\* The arguments of a call the adapter cannot use.
UnusableArguments(c) ==
    \/ c.op = "execute" /\ ~ConvertTransactionToExecution(c.tx).ok
    \/ /\ c.op = "get_treasury_fungible_token_balance"
       /\ c.address \notin TokenAddresses

\* C19: no operation changes the adapter's configuration, and the adapter
\* ends a call with an error of its own only for its configuration (no
\* treasury, or one whose address does not parse) or the call's arguments,
\* whatever was or was not called before; in particular execute goes to
\* the chain without any update made before it.
C19_IndependentlyCallable ==
    [][ /\ UNCHANGED config
        /\ ( Len(calls') = Len(calls) + 1 ) =>
                LET c == calls'[Len(calls')]
                IN /\ RejectedLocally(c) =>
                        treasury # "ok" \/ UnusableArguments(c)
                   /\ ( /\ treasury = "ok"
                        /\ c.op \in {"update", "execute"}
                        /\ ~UnusableArguments(c) )
                      => c.cause \in {"transport", "revert"}
                            \/ c.pc = "signed"
      ]_vars

\* execute was the first call made, against a treasury at the genesis
\* header, and it was the chain that refused it; a read followed.
C19_Witness ==
    /\ Len(calls) = 2
    /\ calls[1].op = "execute"
    /\ calls[1].cause = "revert"
    /\ calls[2].op \in ReadOps
    /\ calls[2].result = "Ok"
    /\ Len(commitRoots) = 0

\* C20: an execute of a transfer of amount 0 is never accepted and fails
\* with InvalidMessageArgument.
C20_ZeroAmountRejected ==
    \A i \in Calls :
        ( /\ ExecuteReachedSend(i)
          /\ calls[i].tx.head = "ex-transfer-ft"
          /\ calls[i].tx.body.amount = 0 )
        => /\ calls[i].result = "InvalidMessageArgument"
           /\ i \notin Accepted

\* C21: get_chain_name returns the variant's fixed name for each of the
\* twelve known families, with a chain_name configured or not; for Other
\* it returns the configured chain_name, and "Unknown" when there is none.
C21_ChainDisplayName ==
    /\ Cardinality(KnownFamilies) = 12
    /\ \A i \in Calls :
        calls[i].op = "get_chain_name" =>
            /\ calls[i].result = "Ok"
            /\ chainType.family # "Other" =>
                    /\ chainType.family \in KnownFamilies
                    /\ calls[i].name = chainType.family
            /\ (chainType.family = "Other" /\ chainType.chain_name # NoName) =>
                    calls[i].name = chainType.chain_name
            /\ (chainType.family = "Other" /\ chainType.chain_name = NoName) =>
                    calls[i].name = "Unknown"

\* A Polygon adapter configured with the chain_name "Goerli" was asked its
\* name.
C21_Witness ==
    /\ chainType = ChainTypeOf("Polygon", "Goerli")
    /\ \E i \in Calls :
        calls[i].op = "get_chain_name" /\ calls[i].name = "Polygon"

\* A string of hex digits only.
IsHexString(str) == \A k \in 1..Len(str) : HexValue(str[k]) >= 0

\* A hex string of an address: "0x" and 40 hex digits, or the 40 digits.
WellFormedAddress(str) ==
    \/ /\ Len(str) = ADDRESS_HEX_LEN_WITH_PREFIX
       /\ str[1] = "0" /\ str[2] = "x"
       /\ IsHexString(SubSeq(str, 3, Len(str)))
    \/ /\ Len(str) = 2 * AddressLen
       /\ IsHexString(str)

\* Formatting an address, parsing the string and formatting what was
\* parsed gives the address and its string again.
AddressRoundTrip ==
    \A i \in Calls :
        calls[i].op = "format_address" =>
            /\ calls[i].result = "Ok"
            /\ calls[i].parsed = calls[i].bytes
            /\ calls[i].again = calls[i].name

\* A string that is no hex string of an address is refused by the parse
\* with the operation's invalid-address error.
MalformedAddressRejected ==
    \A i \in Calls :
        calls[i].op = "parse_address" =>
            /\ calls[i].result # "panic"
            /\ ~WellFormedAddress(calls[i].address) =>
                    calls[i].result = InvalidAddressMessage(calls[i].in)

\* C22: formatting a 20-byte address as hex, parsing and formatting again
\* gives the original bytes; parsing a malformed address string (wrong
\* length or a character that is no hex digit) returns the invalid-address
\* error and does not abort, in every operation that parses an address.
C22_AddressRoundTripAndRejection ==
    AddressRoundTrip /\ MalformedAddressRejected

\* C23: a get_relayer_account_info that succeeds returns an address string
\* of 42 characters, "0x" and the hex digits of the relayer's 20-byte
\* address, and a balance that is not negative; every call of one relayer
\* returns the same address string.
C23_RelayerAccountInfo ==
    \A i \in Calls :
        ( /\ calls[i].op = "get_relayer_account_info"
          /\ calls[i].result = "Ok" )
        => /\ Len(calls[i].name) = 42
           /\ calls[i].name[1] = "0" /\ calls[i].name[2] = "x"
           /\ IsHexString(SubSeq(calls[i].name, 3, 42))
           /\ ParseAddress(calls[i].name).bytes = WalletAddress(calls[i].who)
           /\ Len(WalletAddress(calls[i].who)) = 20
           /\ calls[i].val >= 0
           /\ \A j \in Calls :
                ( /\ calls[j].op = "get_relayer_account_info"
                  /\ calls[j].who = calls[i].who
                  /\ calls[j].result = "Ok" )
                => calls[j].name = calls[i].name

\* The first relayer's account was asked twice, with a block produced in
\* between, and both calls succeeded.
C23_Witness ==
    \E i, j \in Calls :
        /\ i < j
        /\ calls[i].op = "get_relayer_account_info"
        /\ calls[j].op = "get_relayer_account_info"
        /\ calls[i].who = "r1" /\ calls[j].who = "r1"
        /\ calls[i].result = "Ok" /\ calls[j].result = "Ok"
        /\ calls[i].blockAt < calls[j].blockAt

\* Two get_last_block calls that both succeeded, in the order made.
SuccessiveLastBlocks ==
    {p \in Calls \X Calls :
        /\ p[1] < p[2]
        /\ calls[p[1]].op = "get_last_block" /\ calls[p[1]].result = "Ok"
        /\ calls[p[2]].op = "get_last_block" /\ calls[p[2]].result = "Ok"}

\* C24, as stated: of two successive successful get_last_block calls the
\* later returns a strictly greater height.
C24_HeightStrictlyIncreases ==
    \A p \in SuccessiveLastBlocks : calls[p[2]].val > calls[p[1]].val

\* C24, amended: of two successive successful get_last_block calls the
\* later returns a height that is not lower; it is greater by the number of
\* blocks the chain produced between the two calls.
C24_HeightNeverDecreases ==
    \A p \in SuccessiveLastBlocks :
        /\ calls[p[2]].val >= calls[p[1]].val
        /\ calls[p[2]].val - calls[p[1]].val
                = calls[p[2]].blockAt - calls[p[1]].blockAt

\* The latest block was read, the chain produced a block, and the latest
\* block read again was the higher one.
C24_Witness ==
    \E p \in SuccessiveLastBlocks :
        /\ calls[p[2]].val = calls[p[1]].val + 1
        /\ calls[p[2]].val = blockNumber

\* Two submitting calls of one relayer whose transactions carry the same
\* account nonce.
SameNonce(i, j) ==
    /\ i # j
    /\ calls[i].op \in {"update", "execute"}
    /\ calls[j].op \in {"update", "execute"}
    /\ calls[i].who = calls[j].who
    /\ calls[i].nonce = calls[j].nonce

\* C25: the adapter reads the account nonce in each call and coordinates
\* nothing, so two calls of one relayer in flight together sign with the
\* same nonce; of two transactions with the same nonce at most one is
\* mined, and a call whose transaction is not mined may be the earlier one.
C25_UnserializedNonce ==
    /\ \A i, j \in Calls :
        SameNonce(i, j) => ~(i \in Mined /\ j \in Mined)
    /\ \A i, j \in Calls :
        ( /\ i < j
          /\ calls[i].who = calls[j].who
          /\ calls[i].op \in {"update", "execute"}
          /\ calls[j].op \in {"update", "execute"}
          /\ calls[i].pc = "signed"
          /\ calls[i].nonce = nonce[calls[i].who]
          /\ calls[j].pc # "done" )
        => calls[j].nonce = calls[i].nonce

\* Two calls of one relayer were in flight together and both returned Ok
\* with the same nonce; the transaction of the later call was mined and
\* that of the earlier one was dropped.
C25_Witness ==
    \E i, j \in Calls :
        /\ i < j
        /\ SameNonce(i, j)
        /\ Concurrent(i, j)
        /\ calls[i].result = "Ok" /\ calls[j].result = "Ok"
        /\ j \in Accepted
        /\ i \notin Mined
        /\ i \notin mempool

\* What makes a submitting call fail in the adapter: no treasury, a
\* treasury address that does not parse, a transaction that is no
\* execution.
FailsLocally(c) ==
    /\ c.op \in {"update", "execute"}
    /\ \/ treasury # "ok"
       \/ c.op = "execute" /\ c.tx.head # "ex-transfer-ft"

LocalErrors ==
    {"Treasury is not set", "Invalid address",
     "Failed to convert transaction to execution"}

ArgumentsOf(c) ==
    IF c.op = "update"
    THEN [fn |-> "updateLightClient",
          header |-> [type |-> "BlockHeader", data |-> c.hdr],
          proof |-> [type |-> "FinalizationProof", data |-> c.fproof]]
    ELSE [fn |-> "execute",
          transaction |-> [type |-> "Transaction", data |-> c.tx],
          execution |->
            [type |-> "Execution",
             data |-> [target_chain |-> "mythereum",
                       contract_sequence |-> c.tx.body.contract_sequence,
                       message |-> [token_address |-> "T",
                                    amount |-> c.tx.body.amount,
                                    receiver_address |-> "R"]]],
          blockHeight |-> c.height,
          merkleProof |-> [type |-> "MerkleProof", data |-> c.mproof]]

\* C27: the calldata a call goes to the node with, and the calldata of
\* every mined transaction, is the serialization of the header and proof
\* the caller gave to update_treasury_light_client, or of the transaction,
\* the execution derived from it, the block height and the Merkle proof
\* the caller gave to execute, in one transaction.
C27_PassThrough ==
    /\ \A i \in Calls :
        calls[i].op \in {"update", "execute"} =>
            /\ calls[i].data.fn # "none" =>
                    calls[i].data = ArgumentsOf(calls[i])
            /\ ( \/ calls[i].pc = "signed"
                 \/ calls[i].cause \in {"revert", "nonce"}
                 \/ calls[i].result = "Ok"
                 \/ i \in mempool
                 \/ i \in Mined ) => calls[i].data.fn # "none"
    /\ \A k \in 1..Len(log) :
        log[k].data = ArgumentsOf(calls[log[k].call])
    /\ \A i \in Calls : Cardinality(MinedOf(i)) <= 1

\* An execute for a height below the latest one the light client trusts
\* was mined and accepted.
C27_Witness ==
    \E k \in 1..Len(log) :
        /\ log[k].accepted
        /\ log[k].data.fn = "execute"
        /\ log[k].data.blockHeight < Len(commitRoots)
        /\ log[k].data.blockHeight = calls[log[k].call].height

\* C28: get_treasury_non_fungible_token_balance aborts for every argument
\* in every state, returning neither a value nor an error, and changes
\* nothing.
C28_NftBalanceUnimplemented ==
    [][ /\ ( /\ Len(calls') = Len(calls) + 1
             /\ calls'[Len(calls')].op
                    = "get_treasury_non_fungible_token_balance" )
            => /\ calls'[Len(calls')].pc = "done"
               /\ calls'[Len(calls')].result = "panic"
               /\ UNCHANGED <<config, chain, nonce, mempool, log,
                              blockNumber, faults>>
        /\ \A i \in 1..Len(calls') :
            calls'[i].op = "get_treasury_non_fungible_token_balance" =>
                calls'[i].result = "panic"
      ]_vars

\* The NFT balance was asked of a configured treasury, for a token
\* address that parses, after a relayed call whose transaction is mined
\* and accepted.
C28_Witness ==
    \E i \in Calls :
        /\ calls[i].op = "get_treasury_non_fungible_token_balance"
        /\ calls[i].address = "T"
        /\ calls[i].result = "panic"
        /\ treasury = "ok"
        /\ Len(log) > 0
        /\ log[1].accepted
        /\ i > log[1].call

====
